---- MODULE Spec2Model ----
(***************************************************************************)
(* A model of process_images.py: the batch orchestrator (main), the        *)
(* single-image pipeline (process_image) and its pure stages (alpha        *)
(* normalisation, unsharp_mask, center_object).                            *)
(*                                                                         *)
(* File names are tuples of one-character strings, so that suffix, stem,   *)
(* lower() and the sort order are computed, not assumed.  An image buffer  *)
(* is a record [shape, px]: shape is numpy's shape tuple (<<h, w, c>>, or  *)
(* <<h, w>> for a 2-D grayscale array) and px maps <<row, col>> (1-based)  *)
(* to the tuple of channel values of that pixel.                           *)
(***************************************************************************)
EXTENDS Integers, Sequences, FiniteSets, TLC

VARIABLES
    pc,         \* position in main / process_image
    rel,        \* how args.output lies to args.input: "apart", "same", "ancestor"
    center,     \* args.center
    inExists,   \* the input directory exists
    outExists,  \* the output directory exists
    created,    \* directories this run has created, of {"input", "output"}
    children,   \* names of the immediate children of the input directory
    images,     \* main's list `images`
    idx,        \* how many elements of `images` the for loop has taken
    calls,      \* log: the names process_image was called with, in order
    img_rgba,   \* process_image's img_rgba (NoneBuf: not bound, or None)
    final_rgba, \* process_image's final_rgba
    exc,        \* the exception in flight out of process_image (NoExc: none)
    out,        \* files of the output directory: destination name -> content
    imwrites,   \* log: <<name, value returned by cv2.imwrite>> (the code drops it)
    warnings,   \* lines written by tqdm.write: [name, cause]
    info,       \* number of "[INFO] Drop images ..." lines printed
    summary,    \* number of "Finished. Files saved to ..." lines printed
    crashed,    \* an exception left main
    x,          \* center_object study: the argument
    once,       \* center_object(x)
    twice       \* center_object(center_object(x))

vars == <<pc, rel, center, inExists, outExists, created, children, images, idx,
          calls, img_rgba, final_rgba, exc, out, imwrites, warnings, info,
          summary, crashed, x, once, twice>>

-----------------------------------------------------------------------------
(* Bounds *)

\* Largest number of children of the input directory.
MaxFiles == 3
\* Largest height and width of a buffer given to center_object on its own.
MaxH == 2
MaxW == 3
\* Largest width of a buffer a decode yields in the batch (its height is 1).
MaxBufW == 2

-----------------------------------------------------------------------------
(* File names *)

\* The children the input directory may hold.
Names ==
    { <<"a", ".", "j", "p", "g">>,
      <<"a", ".", "p", "n", "g">>,
      <<"B", ".", "J", "P", "G">>,
      <<"n", ".", "t", "x", "t">>,
      <<".", "p", "n", "g">> }

\* Code point of a character (ASCII).
Ord(c) ==
    CASE c = "." -> 46
      [] c = "B" -> 66  [] c = "G" -> 71  [] c = "J" -> 74  [] c = "P" -> 80
      [] c = "_" -> 95
      [] c = "a" -> 97  [] c = "b" -> 98  [] c = "e" -> 101 [] c = "f" -> 102
      [] c = "g" -> 103 [] c = "i" -> 105 [] c = "j" -> 106 [] c = "m" -> 109
      [] c = "n" -> 110 [] c = "p" -> 112 [] c = "r" -> 114 [] c = "s" -> 115
      [] c = "t" -> 116 [] c = "w" -> 119 [] c = "x" -> 120
      [] OTHER -> 0

\* str.lower() on one character.
LowerChar(c) ==
    CASE c = "B" -> "b" [] c = "G" -> "g" [] c = "J" -> "j" [] c = "P" -> "p"
      [] OTHER -> c

\* str.lower()
Lower(s) == [i \in 1..Len(s) |-> LowerChar(s[i])]

\* str.rfind("."), 1-based; 0 when there is no dot.
RFindDot(s) ==
    LET dots == {i \in 1..Len(s) : s[i] = "."}
    IN  IF dots = {} THEN 0 ELSE CHOOSE i \in dots : \A j \in dots : j <= i

\* pathlib's PurePath.suffix: the last dot and what follows, unless the dot is
\* the first or the last character of the name.
suffix(name) ==
    LET i == RFindDot(name)
    IN  IF 1 < i /\ i < Len(name) THEN SubSeq(name, i, Len(name)) ELSE <<>>

\* pathlib's PurePath.stem
stem(name) ==
    LET i == RFindDot(name)
    IN  IF 1 < i /\ i < Len(name) THEN SubSeq(name, 1, i - 1) ELSE name

\* main's `exts`
exts ==
    { <<".", "j", "p", "g">>, <<".", "j", "p", "e", "g">>, <<".", "p", "n", "g">>,
      <<".", "w", "e", "b", "p">>, <<".", "b", "m", "p">>, <<".", "t", "i", "f", "f">> }

\* Mutant of Eligible: the suffix compared without lower().
EligibleCaseSensitive(name) == suffix(name) \in exts

\* The generator's condition: p.suffix.lower() in exts
Eligible(name) == Lower(suffix(name)) \in exts

\* Path.__lt__ for two children of one directory (POSIX flavour): the names
\* compared as strings, code point by code point, a proper prefix first.
RECURSIVE Less(_, _)
Less(a, b) ==
    IF b = <<>> THEN FALSE
    ELSE IF a = <<>> THEN TRUE
    ELSE IF Ord(Head(a)) # Ord(Head(b)) THEN Ord(Head(a)) < Ord(Head(b))
    ELSE Less(Tail(a), Tail(b))

\* sorted(S): the elements of S in increasing order.
RECURSIVE Sorted(_)
Sorted(S) ==
    IF S = {} THEN <<>>
    ELSE LET m == CHOOSE a \in S : \A b \in S \ {a} : Less(a, b)
         IN  <<m>> \o Sorted(S \ {m})

\* images = sorted(p for p in input_dir.iterdir() if p.suffix.lower() in exts)
ListImages(dir) == Sorted({n \in dir : Eligible(n)})

\* out_name = f"{img_path.stem}_transparent.png"
OutName(name) ==
    stem(name) \o <<"_", "t", "r", "a", "n", "s", "p", "a", "r", "e", "n", "t",
                    ".", "p", "n", "g">>

-----------------------------------------------------------------------------
(* Image buffers *)

\* No array: a name not yet bound, or the None cv2.imdecode returns.
NoneBuf == [shape |-> <<>>, px |-> <<>>]

Cells(h, w) == (1..h) \X (1..w)

\* Pixel values the inputs are drawn from.  A 4-channel pixel is <<b, g, r, a>>:
\* one transparent pixel that still carries colour, one partly opaque pixel.
Pix1 == { <<7>>, <<90>> }
Pix3 == { <<10, 20, 30>>, <<200, 100, 0>> }
Pix4 == { <<1, 2, 3, 0>>, <<4, 5, 6, 128>> }

\* All h x w arrays with pixels from P; c = 0 stands for a 2-D array (no channel axis).
Bufs(h, w, c, P) ==
    { [shape |-> IF c = 0 THEN <<h, w>> ELSE <<h, w, c>>, px |-> f] :
        f \in [Cells(h, w) -> P] }

\* What cv2.imdecode(..., IMREAD_UNCHANGED) may yield in the batch: None, a 2-D
\* grayscale array, a 3-channel array or a 4-channel array.
DecodeResults ==
    {NoneBuf}
    \cup Bufs(1, 1, 0, Pix1)
    \cup UNION { Bufs(1, w, 3, Pix3) : w \in 1..MaxBufW }
    \cup UNION { Bufs(1, w, 4, Pix4) : w \in 1..MaxBufW }

\* The 4-channel buffers center_object is studied on.
CenterInputs == UNION { Bufs(h, w, 4, Pix4) : h \in 1..MaxH, w \in 1..MaxW }

\* Mutant of AlphaNormalize: the alpha plane made with zeros_like instead of full_like 255.
AlphaNormalizeZeros(buf) ==
    IF buf.shape[3] = 3
    THEN [shape |-> <<buf.shape[1], buf.shape[2], 4>>,
          px    |-> [p \in DOMAIN buf.px |-> Append(buf.px[p], 0)]]
    ELSE buf

\* "ensure alpha channel" of process_image: a 3-channel array gets an alpha
\* plane of 255 merged in, anything else is left as it is.
AlphaNormalize(buf) ==
    IF buf.shape[3] = 3
    THEN [shape |-> <<buf.shape[1], buf.shape[2], 4>>,
          px    |-> [p \in DOMAIN buf.px |-> Append(buf.px[p], 255)]]
    ELSE buf

\* cv2's BORDER_REFLECT_101 for a 0-based index j of an axis of length n.
Reflect101(j, n) ==
    IF n = 1 THEN 0
    ELSE LET period == 2 * (n - 1)
             m == j % period
         IN  IF m < n THEN m ELSE period - m

\* cv2.getGaussianKernel for sigma = 3.0 (19 taps), in 1/256ths: tap |i| is Kernel[|i|+1].
Kernel == <<34, 32, 27, 21, 14, 9, 5, 2, 1, 0>>

Abs(i) == IF i < 0 THEN -i ELSE i

\* The weight, in 1/256ths, with which source index s (1-based) of an axis of
\* length n enters the blur at index c: the taps i..9 that the border rule
\* folds onto s.
RECURSIVE TapWeight(_, _, _, _)
TapWeight(n, c, s, i) ==
    IF i > 9 THEN 0
    ELSE (IF Reflect101(c - 1 + i, n) = s - 1 THEN Kernel[Abs(i) + 1] ELSE 0)
         + TapWeight(n, c, s, i + 1)

\* TapWeight for every axis length a decoded buffer has, computed once.
BlurWeights ==
    [n \in 1..MaxBufW |-> [c \in 1..n |-> [s \in 1..n |-> TapWeight(n, c, s, -9)]]]

\* cv2.GaussianBlur(img, (0, 0), sigmaX=3, sigmaY=3) at pixel <<r, c>>, channel k:
\* the separable 19-tap kernel over the reflected image, rounded.
GaussianBlur(px, H, W, r, c, k) ==
    LET Acc[i \in 0..H, j \in 0..W] ==
            IF i = 0 THEN 0
            ELSE IF j = 0 THEN Acc[i - 1, W]
            ELSE Acc[i, j - 1]
                 + BlurWeights[H][r][i] * BlurWeights[W][c][j] * px[<<i, j>>][k]
    IN  (Acc[H, W] + 32768) \div 65536

\* cv2.addWeighted(img, 1.5, blurred, -0.5, 0) on one value: 1.5 v - 0.5 b,
\* rounded to the nearest integer (halves to even) and saturated to 0..255.
AddWeighted(v, b) ==
    LET num == 3 * v - b
        r   == IF num % 2 = 0 THEN num \div 2
               ELSE LET f == (num - 1) \div 2
                    IN  IF f % 2 = 0 THEN f ELSE f + 1
    IN  IF r < 0 THEN 0 ELSE IF r > 255 THEN 255 ELSE r

\* unsharp_mask on a 3-channel array with the default strength and sigma.
unsharp_mask(bgr) ==
    LET H == bgr.shape[1]
        W == bgr.shape[2]
    IN  [shape |-> bgr.shape,
         px    |-> [p \in DOMAIN bgr.px |->
                      [k \in 1..3 |->
                         AddWeighted(bgr.px[p][k],
                                     GaussianBlur(bgr.px, H, W, p[1], p[2], k))]]]

\* "sharpen colour channels" of process_image: split into b, g, r, a, sharpen
\* the merged colour planes, merge the result with the untouched alpha plane.
SharpenColour(rgba) ==
    LET bgr == [shape |-> <<rgba.shape[1], rgba.shape[2], 3>>,
                px    |-> [p \in DOMAIN rgba.px |-> SubSeq(rgba.px[p], 1, 3)]]
        s   == unsharp_mask(bgr)
    IN  [shape |-> rgba.shape,
         px    |-> [p \in DOMAIN rgba.px |-> Append(s.px[p], rgba.px[p][4])]]

Min(S) == CHOOSE m \in S : \A n \in S : m <= n
Max(S) == CHOOSE m \in S : \A n \in S : n <= m

\* Mutant of center_object: the canvas is a copy of the input, not zeros.
center_object_on_copy(rgba) ==
    LET where == {p \in DOMAIN rgba.px : rgba.px[p][4] > 0}
    IN  IF where = {} THEN rgba
        ELSE LET y_min == Min({p[1] : p \in where})
                 y_max == Max({p[1] : p \in where})
                 x_min == Min({p[2] : p \in where})
                 x_max == Max({p[2] : p \in where})
                 h == y_max - y_min + 1
                 w == x_max - x_min + 1
                 offset_x == (rgba.shape[2] - w) \div 2
                 offset_y == (rgba.shape[1] - h) \div 2
             IN  [shape |-> rgba.shape,
                  px |-> [p \in DOMAIN rgba.px |->
                            IF /\ offset_y < p[1] /\ p[1] <= offset_y + h
                               /\ offset_x < p[2] /\ p[2] <= offset_x + w
                            THEN rgba.px[<<p[1] - offset_y + y_min - 1,
                                           p[2] - offset_x + x_min - 1>>]
                            ELSE rgba.px[p]]]

\* Mutant of center_object: the offsets rounded up, not down.
center_object_round_up(rgba) ==
    LET where == {p \in DOMAIN rgba.px : rgba.px[p][4] > 0}
    IN  IF where = {} THEN rgba
        ELSE LET y_min == Min({p[1] : p \in where})
                 y_max == Max({p[1] : p \in where})
                 x_min == Min({p[2] : p \in where})
                 x_max == Max({p[2] : p \in where})
                 h == y_max - y_min + 1
                 w == x_max - x_min + 1
                 offset_x == (rgba.shape[2] - w + 1) \div 2
                 offset_y == (rgba.shape[1] - h + 1) \div 2
             IN  [shape |-> rgba.shape,
                  px |-> [p \in DOMAIN rgba.px |->
                            IF /\ offset_y < p[1] /\ p[1] <= offset_y + h
                               /\ offset_x < p[2] /\ p[2] <= offset_x + w
                            THEN rgba.px[<<p[1] - offset_y + y_min - 1,
                                           p[2] - offset_x + x_min - 1>>]
                            ELSE <<0, 0, 0, 0>>]]

\* center_object
center_object(rgba) ==
    LET where == {p \in DOMAIN rgba.px : rgba.px[p][4] > 0}
    IN  IF where = {} THEN rgba
        ELSE LET y_min == Min({p[1] : p \in where})
                 y_max == Max({p[1] : p \in where})
                 x_min == Min({p[2] : p \in where})
                 x_max == Max({p[2] : p \in where})
                 H == rgba.shape[1]
                 W == rgba.shape[2]
                 h == y_max - y_min + 1
                 w == x_max - x_min + 1
                 offset_x == (W - w) \div 2
                 offset_y == (H - h) \div 2
             IN  [shape |-> rgba.shape,
                  px |-> [p \in DOMAIN rgba.px |->
                            IF /\ offset_y < p[1] /\ p[1] <= offset_y + h
                               /\ offset_x < p[2] /\ p[2] <= offset_x + w
                            THEN rgba.px[<<p[1] - offset_y + y_min - 1,
                                           p[2] - offset_x + x_min - 1>>]
                            ELSE <<0, 0, 0, 0>>]]

-----------------------------------------------------------------------------
(* Exceptions *)

NoExc == [cls |-> "", cause |-> ""]

\* The classes `except Exception` catches, of those the pipeline raises.
ExceptionClasses ==
    {"Exception", "OSError", "AttributeError", "IndexError", "ValueError"}

\* Mutant of Caught: a handler for OSError only.
CaughtOSErrorOnly(e) == e.cls = "OSError"

\* main's `except Exception as exc`
Caught(e) == e.cls \in ExceptionClasses

-----------------------------------------------------------------------------
(* The batch run *)

Init ==
    /\ pc = "start"
    /\ rel \in {"apart", "same", "ancestor"}
    /\ center \in BOOLEAN
    /\ inExists \in BOOLEAN
    /\ outExists \in BOOLEAN
    /\ rel = "same" => outExists = inExists
    /\ rel = "ancestor" => (inExists => outExists)
    /\ children \in {c \in SUBSET Names : Cardinality(c) <= MaxFiles}
    /\ ~inExists => children = {}
    /\ created = {}
    /\ images = <<>>
    /\ idx = 0
    /\ calls = <<>>
    /\ img_rgba = NoneBuf
    /\ final_rgba = NoneBuf
    /\ exc = NoExc
    /\ out = <<>>
    /\ imwrites = <<>>
    /\ warnings = <<>>
    /\ info = 0
    /\ summary = 0
    /\ crashed = FALSE
    /\ x = NoneBuf
    /\ once = NoneBuf
    /\ twice = NoneBuf

study == <<x, once, twice>>

\* Mutant of Start: the `if not images` return is missing.
StartWithoutReturn ==
    /\ pc = "start"
    /\ inExists' = TRUE
    /\ outExists' = (outExists \/ rel \in {"same", "ancestor"})
    /\ created' = (IF inExists THEN {} ELSE {"input"})
                  \cup (IF ~outExists /\ rel \in {"same", "ancestor"}
                        THEN {"output"} ELSE {})
    /\ images' = ListImages(children)
    /\ pc' = "for"
    /\ UNCHANGED <<rel, center, children, idx, calls, img_rgba, final_rgba, exc,
                   out, imwrites, warnings, info, summary, crashed, study>>

\* main up to the loop: input_dir.mkdir(parents=True, exist_ok=True) creates the
\* input directory and its missing ancestors, the children are filtered and
\* sorted, and an empty list prints the guidance and returns.
Start ==
    /\ pc = "start"
    /\ inExists' = TRUE
    /\ outExists' = (outExists \/ rel \in {"same", "ancestor"})
    /\ created' = (IF inExists THEN {} ELSE {"input"})
                  \cup (IF ~outExists /\ rel \in {"same", "ancestor"}
                        THEN {"output"} ELSE {})
    /\ images' = ListImages(children)
    /\ IF images' = <<>>
       THEN info' = info + 1 /\ pc' = "returned"
       ELSE info' = info /\ pc' = "for"
    /\ UNCHANGED <<rel, center, children, idx, calls, img_rgba, final_rgba, exc,
                   out, imwrites, warnings, summary, crashed, study>>

\* The for loop takes its next element and calls process_image on it.
Iterate ==
    /\ pc = "for"
    /\ idx < Len(images)
    /\ idx' = idx + 1
    /\ calls' = Append(calls, images[idx + 1])
    /\ pc' = "read"
    /\ UNCHANGED <<rel, center, inExists, outExists, created, children, images,
                   img_rgba, final_rgba, exc, out, imwrites, warnings, info,
                   summary, crashed, study>>

\* The loop is exhausted: the summary is printed and main returns.
Finish ==
    /\ pc = "for"
    /\ idx = Len(images)
    /\ summary' = summary + 1
    /\ pc' = "finished"
    /\ UNCHANGED <<rel, center, inExists, outExists, created, children, images,
                   idx, calls, img_rgba, final_rgba, exc, out, imwrites,
                   warnings, info, crashed, study>>

\* src.read_bytes() and remove(img_bytes): either may raise.
ReadAndRemove ==
    /\ pc = "read"
    /\ \/ exc' = [cls |-> "OSError", cause |-> "read"] /\ pc' = "except"
       \/ exc' = [cls |-> "Exception", cause |-> "segmentation"] /\ pc' = "except"
       \/ exc' = exc /\ pc' = "decode"
    /\ UNCHANGED <<rel, center, inExists, outExists, created, children, images,
                   idx, calls, img_rgba, final_rgba, out, imwrites, warnings,
                   info, summary, crashed, study>>

\* cv2.imdecode: an array, or None for bytes that are no image.
Decode ==
    /\ pc = "decode"
    /\ \E b \in DecodeResults : img_rgba' = b
    /\ pc' = "normalize"
    /\ UNCHANGED <<rel, center, inExists, outExists, created, children, images,
                   idx, calls, final_rgba, exc, out, imwrites, warnings, info,
                   summary, crashed, study>>

\* `if img_rgba.shape[2] == 3:` and its body.  None has no shape
\* (AttributeError); a 2-D array has no shape[2] (IndexError).
Normalize ==
    /\ pc = "normalize"
    /\ IF img_rgba = NoneBuf
       THEN /\ exc' = [cls |-> "AttributeError", cause |-> "decode"]
            /\ pc' = "except"
            /\ img_rgba' = img_rgba
       ELSE IF Len(img_rgba.shape) < 3
       THEN /\ exc' = [cls |-> "IndexError", cause |-> "channels"]
            /\ pc' = "except"
            /\ img_rgba' = img_rgba
       ELSE /\ exc' = exc
            /\ pc' = "sharpen"
            /\ img_rgba' = AlphaNormalize(img_rgba)
    /\ UNCHANGED <<rel, center, inExists, outExists, created, children, images,
                   idx, calls, final_rgba, out, imwrites, warnings, info,
                   summary, crashed, study>>

\* `b, g, r, a = cv2.split(img_rgba)` (ValueError unless there are 4 planes)
\* and the sharpening of the colour planes.
Sharpen ==
    /\ pc = "sharpen"
    /\ IF img_rgba.shape[3] # 4
       THEN /\ exc' = [cls |-> "ValueError", cause |-> "channels"]
            /\ pc' = "except"
            /\ final_rgba' = final_rgba
       ELSE /\ exc' = exc
            /\ pc' = "center"
            /\ final_rgba' = SharpenColour(img_rgba)
    /\ UNCHANGED <<rel, center, inExists, outExists, created, children, images,
                   idx, calls, img_rgba, out, imwrites, warnings, info, summary,
                   crashed, study>>

\* `if center: final_rgba = center_object(final_rgba)`
Center ==
    /\ pc = "center"
    /\ final_rgba' = IF center THEN center_object(final_rgba) ELSE final_rgba
    /\ pc' = "write"
    /\ UNCHANGED <<rel, center, inExists, outExists, created, children, images,
                   idx, calls, img_rgba, exc, out, imwrites, warnings, info,
                   summary, crashed, study>>

\* The content cv2.imwrite leaves at the destination.
Written(name, buf, whole) ==
    [by |-> name, chans |-> buf.shape[3], whole |-> whole]

Put(files, dst, content) ==
    [d \in DOMAIN files \cup {dst} |-> IF d = dst THEN content ELSE files[d]]

\* dst.parent.mkdir(parents=True, exist_ok=True); cv2.imwrite(str(dst), final_rgba).
\* mkdir raises when the directory cannot be made.  cv2.imwrite does not raise
\* when it cannot write: it returns False, having left the destination alone
\* (it could not be opened) or cut short (the disk filled up), and
\* process_image drops the value and returns.
Write ==
    /\ pc = "write"
    /\ LET name == images[idx]
           dst  == OutName(name)
       IN  \/ /\ ~outExists
              /\ exc' = [cls |-> "OSError", cause |-> "mkdir"]
              /\ pc' = "except"
              /\ UNCHANGED <<outExists, created, out, imwrites, img_rgba, final_rgba>>
           \/ /\ outExists' = TRUE
              /\ created' = IF outExists THEN created ELSE created \cup {"output"}
              /\ \/ /\ out' = Put(out, dst, Written(name, final_rgba, TRUE))
                    /\ imwrites' = Append(imwrites, <<name, TRUE>>)
                 \/ /\ out' = out
                    /\ imwrites' = Append(imwrites, <<name, FALSE>>)
                 \/ /\ out' = Put(out, dst, Written(name, final_rgba, FALSE))
                    /\ imwrites' = Append(imwrites, <<name, FALSE>>)
              /\ exc' = exc
              /\ pc' = "for"
              /\ img_rgba' = NoneBuf
              /\ final_rgba' = NoneBuf
    /\ UNCHANGED <<rel, center, inExists, children, images, idx, calls,
                   warnings, info, summary, crashed, study>>

\* main's handler: tqdm.write(f"Error processing {img_path.name}: {exc}") and
\* on to the next element; an exception it does not catch leaves main.
Except ==
    /\ pc = "except"
    /\ IF Caught(exc)
       THEN /\ warnings' = Append(warnings, [name |-> images[idx], cause |-> exc.cause])
            /\ pc' = "for"
            /\ crashed' = crashed
       ELSE /\ warnings' = warnings
            /\ pc' = "crashed"
            /\ crashed' = TRUE
    /\ exc' = NoExc
    /\ img_rgba' = NoneBuf
    /\ final_rgba' = NoneBuf
    /\ UNCHANGED <<rel, center, inExists, outExists, created, children, images,
                   idx, calls, out, imwrites, info, summary, study>>

Next ==
    \/ Start
    \/ Iterate
    \/ Finish
    \/ ReadAndRemove
    \/ Decode
    \/ Normalize
    \/ Sharpen
    \/ Center
    \/ Write
    \/ Except

Spec == Init /\ [][Next]_vars

\* main is one thread of a sequential program: a statement that can run does run.
FairSpec == Spec /\ WF_vars(Next)

-----------------------------------------------------------------------------
(* center_object on its own: applied once and twice to every 4-channel buffer *)
(* up to MaxH x MaxW.                                                         *)

batch == <<rel, center, inExists, outExists, created, children, images, idx,
           calls, img_rgba, final_rgba, exc, out, imwrites, warnings, info,
           summary, crashed>>

InitCenter ==
    /\ pc = "center_0"
    /\ x \in CenterInputs
    /\ once = NoneBuf
    /\ twice = NoneBuf
    /\ rel = "apart"
    /\ center = TRUE
    /\ inExists = TRUE
    /\ outExists = TRUE
    /\ created = {}
    /\ children = {}
    /\ images = <<>>
    /\ idx = 0
    /\ calls = <<>>
    /\ img_rgba = NoneBuf
    /\ final_rgba = NoneBuf
    /\ exc = NoExc
    /\ out = <<>>
    /\ imwrites = <<>>
    /\ warnings = <<>>
    /\ info = 0
    /\ summary = 0
    /\ crashed = FALSE

CenterOnce ==
    /\ pc = "center_0"
    /\ once' = center_object(x)
    /\ pc' = "center_1"
    /\ UNCHANGED <<x, twice, batch>>

CenterTwice ==
    /\ pc = "center_1"
    /\ twice' = center_object(once)
    /\ pc' = "center_2"
    /\ UNCHANGED <<x, once, batch>>

NextCenter ==
    \/ CenterOnce
    \/ CenterTwice

SpecCenter == InitCenter /\ [][NextCenter]_vars

-----------------------------------------------------------------------------
(* What the claims speak of *)

\* The children of Names that are images by the naming rule of the
\* specification, written out: "a.jpg", "a.png" and "B.JPG".  "n.txt" has
\* another extension and ".png" is a dot-file without any.
ImageNames ==
    { <<"a", ".", "j", "p", "g">>,
      <<"a", ".", "p", "n", "g">>,
      <<"B", ".", "J", "P", "G">> }

Range(s) == {s[i] : i \in 1..Len(s)}

\* The warnings that name n.
WarningsFor(n) == {i \in 1..Len(warnings) : warnings[i].name = n}

\* process_image(n) ended and cv2.imwrite reported the file written / not written.
WroteFile(n)   == \E i \in 1..Len(imwrites) : imwrites[i] = <<n, TRUE>>
WriteFailed(n) == \E i \in 1..Len(imwrites) : imwrites[i] = <<n, FALSE>>

\* The invocation on n has ended in a failure of some stage.
Failed(n) == WarningsFor(n) # {} \/ WriteFailed(n)

\* C1 (as claimed).  Batch isolation: when the run has finished, every eligible
\* item was attempted, every item that did not fail has its destination in the
\* output directory, and every item that failed has exactly one warning naming it.
C1_BatchIsolation ==
    pc = "finished" =>
        \A n \in children \cap ImageNames :
            /\ n \in Range(calls)
            /\ ~Failed(n) => OutName(n) \in DOMAIN out
            /\ Failed(n) => Cardinality(WarningsFor(n)) = 1

\* C2 (as claimed).  No error is silently dropped: there is no finished run with an
\* item whose destination file was not produced and for which no warning was logged.
C2_NoSilentDrop ==
    pc = "finished" =>
        \A n \in Range(calls) : WroteFile(n) \/ WarningsFor(n) # {}

\* C3 (as claimed).  No partial write: in every state each destination file holds a
\* complete 4-channel result, and a failed invocation has surfaced as one error
\* and has left no trace in the output directory.
C3_NoPartialWrite ==
    /\ \A d \in DOMAIN out : out[d].whole /\ out[d].chans = 4
    /\ \A n \in Range(calls) :
           Failed(n) =>
               /\ Cardinality(WarningsFor(n)) = 1
               /\ \A d \in DOMAIN out : out[d].by # n

\* C4.  The pipeline is invoked on exactly the eligible children, each once, one
\* at a time, in increasing order of path; other children are never passed to it
\* and never yield an output file.
C4_ExactlyEligibleInOrder ==
    /\ Range(calls) \subseteq children \cap ImageNames
    /\ \A i, j \in 1..Len(calls) : i < j => Less(calls[i], calls[j])
    /\ pc \in {"read", "decode", "normalize", "sharpen", "center", "write", "except"}
           => idx = Len(calls) /\ idx >= 1
    /\ pc = "finished" => Range(calls) = children \cap ImageNames
    /\ \A d \in DOMAIN out : out[d].by \in ImageNames
    /\ \A n \in children \ ImageNames : WarningsFor(n) = {} /\ OutName(n) \notin DOMAIN out

C4_Witness ==
    /\ pc = "finished"
    /\ <<"n", ".", "t", "x", "t">> \in children
    /\ calls = << <<"B", ".", "J", "P", "G">>, <<"a", ".", "j", "p", "g">> >>
    /\ Cardinality(DOMAIN out) = 2

\* C5.  With a non-empty eligible set the run terminates normally: no exception
\* leaves main (the handler always hands control back to the loop), and the
\* summary is printed exactly once, after the last item was attempted, however
\* many items failed.
C5_TerminatesNormally ==
    /\ [](/\ ~crashed
          /\ pc # "crashed"
          /\ summary <= 1
          /\ summary = 1 <=> pc = "finished"
          /\ pc = "finished" => Len(calls) = Len(images) /\ idx = Len(images))
    /\ [][pc = "except" => pc' = "for"]_vars
    /\ (pc = "for") ~> (pc = "finished" /\ summary = 1)

C5_Witness ==
    /\ pc = "finished"
    /\ summary = 1
    /\ Len(images) = 3
    /\ Len(warnings) = 3
    /\ out = <<>>

\* C6 (as claimed).  Empty input: no pipeline invocation, no output file and no
\* output directory created, the guidance printed, a clean exit.
C6_EmptyInput ==
    /\ (pc # "start" /\ children \cap ImageNames = {}) => pc = "returned"
    /\ pc = "returned" =>
           /\ calls = <<>>
           /\ DOMAIN out = {}
           /\ "output" \notin created
           /\ info = 1 /\ summary = 0 /\ ~crashed

\* C6 (amended).  As C6, but the output directory is created when (and only when)
\* it is the input directory itself or one of its ancestors and did not exist:
\* the mkdir of the input side makes it.
C6_EmptyInputAmended ==
    /\ (pc # "start" /\ children \cap ImageNames = {}) => pc = "returned"
    /\ pc = "returned" =>
           /\ children \cap ImageNames = {}
           /\ calls = <<>>
           /\ DOMAIN out = {}
           /\ "output" \in created => rel \in {"same", "ancestor"}
           /\ info = 1 /\ summary = 0 /\ ~crashed

C6_Witness ==
    /\ pc = "returned"
    /\ children = { <<"n", ".", "t", "x", "t">>, <<".", "p", "n", "g">> }
    /\ rel = "apart"
    /\ ~outExists
    /\ info = 1

\* C7.  Centerer idempotence: center_object(center_object(x)) = center_object(x).
C7_CenterIdempotent ==
    pc = "center_2" => twice = once

\* The pixels of buf with alpha > 0.
Visible(buf) == {p \in DOMAIN buf.px : buf.px[p][4] > 0}

C7_Witness ==
    /\ pc = "center_2"
    /\ once # x
    /\ twice = once
    /\ \E p \in Visible(x) : p[2] = 1
    /\ x.shape = <<2, 3, 4>>

\* C8.  Centerer against its reference: the output has the input's shape; with
\* no pixel of alpha > 0 it is the input; otherwise it holds the content of the
\* tight bounding box at rows (H-h)//2 .. and columns (W-w)//2 .., zeros
\* elsewhere, and the top/left padding is the bottom/right padding or one less.
C8_CenterReference ==
    pc \in {"center_1", "center_2"} =>
        /\ once.shape = x.shape
        /\ DOMAIN once.px = DOMAIN x.px
        /\ Visible(x) = {} => once = x
        /\ Visible(x) # {} =>
             LET H    == x.shape[1]
                 W    == x.shape[2]
                 rows == {p[1] : p \in Visible(x)}
                 cols == {p[2] : p \in Visible(x)}
                 top  == CHOOSE r \in rows : \A q \in rows : r <= q
                 left == CHOOSE c \in cols : \A q \in cols : c <= q
                 h    == Cardinality({r \in 1..H : \E a, b \in rows : a <= r /\ r <= b})
                 w    == Cardinality({c \in 1..W : \E a, b \in cols : a <= c /\ c <= b})
                 padT == CHOOSE k \in 0..H : 2 * k <= H - h /\ H - h < 2 * k + 2
                 padL == CHOOSE k \in 0..W : 2 * k <= W - w /\ W - w < 2 * k + 2
                 padB == H - h - padT
                 padR == W - w - padL
             IN  /\ padT <= padB /\ padB <= padT + 1
                 /\ padL <= padR /\ padR <= padL + 1
                 /\ \A r \in 1..h, c \in 1..w :
                        once.px[<<padT + r, padL + c>>] = x.px[<<top + r - 1, left + c - 1>>]
                 /\ \A p \in DOMAIN once.px :
                        (p[1] <= padT \/ p[1] > padT + h \/ p[2] <= padL \/ p[2] > padL + w)
                            => once.px[p] = <<0, 0, 0, 0>>

C8_Witness ==
    /\ pc = "center_1"
    /\ x.shape = <<2, 3, 4>>
    /\ Visible(x) = {<<1, 1>>}
    /\ once.px[<<1, 2>>] = <<4, 5, 6, 128>>
    /\ once.px[<<1, 1>>] = <<0, 0, 0, 0>>
    /\ once.px[<<2, 3>>] = <<0, 0, 0, 0>>

\* C9.  Alpha normalisation: a 4-channel buffer passes unchanged; a 3-channel
\* buffer becomes a 4-channel buffer of the same height and width with the
\* colour planes unchanged and every alpha 255; any other decode result is an
\* error for that item alone: nothing is written for it and the loop goes on.
C9_AlphaNormalisation ==
    /\ [][(pc = "normalize" /\ pc' = "sharpen") =>
            /\ Len(img_rgba.shape) = 3 /\ img_rgba.shape[3] \in {3, 4}
            /\ img_rgba.shape[3] = 4 => img_rgba' = img_rgba
            /\ img_rgba.shape[3] = 3 =>
                 /\ img_rgba'.shape = <<img_rgba.shape[1], img_rgba.shape[2], 4>>
                 /\ DOMAIN img_rgba'.px = DOMAIN img_rgba.px
                 /\ \A p \in DOMAIN img_rgba.px :
                        /\ SubSeq(img_rgba'.px[p], 1, 3) = img_rgba.px[p]
                        /\ img_rgba'.px[p][4] = 255]_vars
    /\ [][(pc = "normalize" /\ (Len(img_rgba.shape) # 3 \/ img_rgba.shape[3] \notin {3, 4})) =>
            pc' = "except" /\ out' = out /\ imwrites' = imwrites]_vars
    /\ [][pc = "except" =>
            /\ pc' = "for" /\ out' = out /\ ~crashed'
            /\ warnings' = Append(warnings, [name |-> calls[Len(calls)], cause |-> exc.cause])]_vars

C9_Witness ==
    /\ pc = "sharpen"
    /\ img_rgba.shape = <<1, 2, 4>>
    /\ \A p \in DOMAIN img_rgba.px : img_rgba.px[p][4] = 255
    /\ idx = 2
    /\ Len(warnings) = 1
    /\ warnings[1].cause = "channels"

\* C10 (as claimed).  Distinct eligible inputs never share a destination: no
\* written output is overwritten by a later item, and a run in which every item
\* succeeds leaves as many output files as there are eligible inputs.
C10_DistinctDestinations ==
    /\ \A n \in Range(calls) :
           WroteFile(n) => \E d \in DOMAIN out : out[d].by = n
    /\ (pc = "finished" /\ \A n \in Range(calls) : ~Failed(n))
           => Cardinality(DOMAIN out) = Len(images)

====
